---- MODULE Spec2Model ----
(***************************************************************************)
(* MeshPayRewards (contracts/hello-world/src/lib.rs): a Soroban contract   *)
(* that records payments in instance storage and pays a 1% fee split to a  *)
(* broadcaster, a relayer and the protocol address.                        *)
(*                                                                         *)
(* The host runs one invocation at a time and an invocation that panics    *)
(* is rolled back as a whole: its storage writes, token transfers and      *)
(* events are discarded.  Every action below is one whole invocation.      *)
(***************************************************************************)
EXTENDS Integers, Sequences, FiniteSets, TLC

\* ---------------------------------------------------------------- bounds
MaxPayments == 2      \* successful create_payment calls explored
MaxGross == 12000     \* |amount| explored for calculate_fees alone
WideSpread == 4       \* distance explored around each i128 overflow threshold

\* ------------------------------------------------------- program constants
TOTAL_FEE_BPS == 100
BROADCASTER_FEE_BPS == 50
RELAYER_FEE_BPS == 10
PROTOCOL_FEE_BPS == 40
BPS_DENOMINATOR == 10000

\* ------------------------------------------------------------ input sets
Senders == {"S"}
Recipients == {"R"}
Broadcasters == {"B1", "B2"}
Relayers == {"L"}
Protocols == {"P1", "P2"}
Payers == {"S"}
Tokens == {"XLM"}
CreateAmounts == {100, 10000}        \* amount of create_payment
GrossAmounts == {-100, 100, 10000}   \* gross_amount of distribute_rewards, amount of calculate_fees
PaymentIds == 0..MaxPayments
GrossRange == (0 - MaxGross)..MaxGross

VARIABLES
    storage,      \* env.storage().instance(): DataKey -> value
    call,         \* the last invocation: entry point and arguments
    result,       \* its outcome: "ok" with the returned value, or the error
    transfers,    \* token transfers committed by the last invocation
    events,       \* events published by the last invocation
    issued_ids,   \* ids returned by the successful create_payment calls
    created,      \* the record each of those calls stored, in the same order
    distributed   \* ids for which a distribute_rewards call has succeeded

vars == <<storage, call, result, transfers, events, issued_ids, created, distributed>>

\* ------------------------------------------------------------- DataKey
ProtocolKey == <<"Protocol">>
PaymentCountKey == <<"PaymentCount">>
PaymentKey(payment_id) == <<"Payment", payment_id>>

\* ---------------------------------------------------- instance storage
EmptyStorage == [k \in {} |-> 0]
has(s, key) == key \in DOMAIN s
get(s, key) == s[key]
set(s, key, val) == [k \in (DOMAIN s) \cup {key} |-> IF k = key THEN val ELSE s[k]]

\* ------------------------------------------------------------ arithmetic
\* i128 `/`: the quotient is truncated toward zero (divisor > 0 here)
TruncDiv(a, b) == IF a >= 0 THEN a \div b ELSE 0 - ((0 - a) \div b)

\* Variant of the fee quotient that rounds toward minus infinity.
bps_fee_floor(amount, rate_bps) == (amount * rate_bps) \div BPS_DENOMINATOR

\* (amount * RATE_BPS as i128) / 10000
bps_fee(amount, rate_bps) == TruncDiv(amount * rate_bps, BPS_DENOMINATOR)

\* Variant of calculate_fees that derives the net amount from one combined
\* 1% fee instead of subtracting the three components.
calculate_fees_combined_net(amount) ==
    LET broadcaster_fee == bps_fee(amount, BROADCASTER_FEE_BPS)
        relayer_fee == bps_fee(amount, RELAYER_FEE_BPS)
        protocol_fee == bps_fee(amount, PROTOCOL_FEE_BPS)
        net_amount == amount - bps_fee(amount, TOTAL_FEE_BPS)
    IN  <<net_amount, broadcaster_fee, relayer_fee, protocol_fee>>

\* calculate_fees: (net_amount, broadcaster_fee, relayer_fee, protocol_fee)
calculate_fees(amount) ==
    LET broadcaster_fee == bps_fee(amount, BROADCASTER_FEE_BPS)
        relayer_fee == bps_fee(amount, RELAYER_FEE_BPS)
        protocol_fee == bps_fee(amount, PROTOCOL_FEE_BPS)
        net_amount == amount - broadcaster_fee - relayer_fee - protocol_fee
    IN  <<net_amount, broadcaster_fee, relayer_fee, protocol_fee>>

\* Variant of the stored net amount whose 1% fee is rounded up.
create_net_amount_fee_rounded_up(amount) ==
    LET total_fee == 0 - ((0 - amount * TOTAL_FEE_BPS) \div BPS_DENOMINATOR)
    IN  amount - total_fee

\* net amount stored by create_payment
create_net_amount(amount) ==
    LET total_fee == bps_fee(amount, TOTAL_FEE_BPS)
    IN  amount - total_fee

\* u64 read of PaymentCount with unwrap_or(0)
payment_count(s) == IF has(s, PaymentCountKey) THEN get(s, PaymentCountKey) ELSE 0

\* ---------------------------------------------------------------- outcomes
Ok(val) == [status |-> "ok", value |-> val]
Err(kind) == [status |-> kind]
Unit == <<>>

\* a panicking invocation: nothing it did is committed
Reverted(kind) ==
    /\ result' = Err(kind)
    /\ transfers' = <<>>
    /\ events' = <<>>
    /\ UNCHANGED <<storage, issued_ids, created, distributed>>

\* a read-only invocation that returns val
Returned(val) ==
    /\ result' = Ok(val)
    /\ transfers' = <<>>
    /\ events' = <<>>
    /\ UNCHANGED <<storage, issued_ids, created, distributed>>

Init ==
    /\ storage = EmptyStorage
    /\ call = [op |-> "none"]
    /\ result = Ok(Unit)
    /\ transfers = <<>>
    /\ events = <<>>
    /\ issued_ids = <<>>
    /\ created = <<>>
    /\ distributed = {}

\* ------------------------------------------------------------ initialize
\* Variant of initialize without the has(Protocol) guard.
InitializeUnguarded(protocol) ==
    /\ call' = [op |-> "initialize", protocol |-> protocol]
    /\ storage' = set(set(storage, ProtocolKey, protocol), PaymentCountKey, 0)
    /\ result' = Ok(Unit)
    /\ transfers' = <<>>
    /\ events' = <<>>
    /\ UNCHANGED <<issued_ids, created, distributed>>

Initialize(protocol) ==
    /\ call' = [op |-> "initialize", protocol |-> protocol]
    /\ IF has(storage, ProtocolKey)
       THEN Reverted("AlreadyInitialized")
       ELSE /\ storage' = set(set(storage, ProtocolKey, protocol), PaymentCountKey, 0)
            /\ result' = Ok(Unit)
            /\ transfers' = <<>>
            /\ events' = <<>>
            /\ UNCHANGED <<issued_ids, created, distributed>>

\* -------------------------------------------------------- create_payment
\* Variant of create_payment without sender.require_auth().
CreatePaymentNoAuth(sender, recipient, broadcaster, relayer, amount, authorized) ==
    /\ Len(issued_ids) < MaxPayments
    /\ call' = [op |-> "create_payment", sender |-> sender, recipient |-> recipient,
                broadcaster |-> broadcaster, relayer |-> relayer, amount |-> amount,
                authorized |-> authorized]
    /\ LET payment_id == payment_count(storage)
           net_amount == create_net_amount(amount)
           payment == [sender |-> sender, recipient |-> recipient,
                       broadcaster |-> broadcaster, relayer |-> relayer,
                       amount |-> net_amount, claimed |-> FALSE]
       IN  /\ storage' = set(set(storage, PaymentKey(payment_id), payment),
                             PaymentCountKey, payment_id + 1)
           /\ result' = Ok(payment_id)
           /\ issued_ids' = Append(issued_ids, payment_id)
           /\ created' = Append(created, payment)
           /\ transfers' = <<>>
           /\ events' = <<>>
           /\ UNCHANGED distributed

CreatePayment(sender, recipient, broadcaster, relayer, amount, authorized) ==
    /\ Len(issued_ids) < MaxPayments
    /\ call' = [op |-> "create_payment", sender |-> sender, recipient |-> recipient,
                broadcaster |-> broadcaster, relayer |-> relayer, amount |-> amount,
                authorized |-> authorized]
    /\ IF ~authorized
       THEN Reverted("NotAuthorized")
       ELSE LET payment_id == payment_count(storage)
                net_amount == create_net_amount(amount)
                payment == [sender |-> sender, recipient |-> recipient,
                            broadcaster |-> broadcaster, relayer |-> relayer,
                            amount |-> net_amount, claimed |-> FALSE]
            IN  /\ storage' = set(set(storage, PaymentKey(payment_id), payment),
                                  PaymentCountKey, payment_id + 1)
                /\ result' = Ok(payment_id)
                /\ issued_ids' = Append(issued_ids, payment_id)
                /\ created' = Append(created, payment)
                /\ transfers' = <<>>
                /\ events' = <<>>
                /\ UNCHANGED distributed

\* ---------------------------------------------------- distribute_rewards
Transfer(from, to, amount) == [from |-> from, to |-> to, amount |-> amount]
Event(topic, to, amount) == [topic |-> topic, to |-> to, amount |-> amount]

\* Variant of distribute_rewards that pays the relayer the protocol share and
\* the protocol the relayer share.
DistributeRewardsProtocolLast(payment_id, gross_amount, token_address, from, authorized, failed_transfer) ==
    /\ call' = [op |-> "distribute_rewards", payment_id |-> payment_id,
                gross_amount |-> gross_amount, token_address |-> token_address,
                from |-> from, authorized |-> authorized]
    /\ IF ~authorized
       THEN Reverted("NotAuthorized")
       ELSE IF ~has(storage, PaymentKey(payment_id))
       THEN Reverted("PaymentNotFound")
       ELSE IF ~has(storage, ProtocolKey)
       THEN Reverted("ProtocolNotConfigured")
       ELSE IF failed_transfer # 0
       THEN Reverted("TransferFailed")
       ELSE LET payment == get(storage, PaymentKey(payment_id))
                broadcaster_fee == bps_fee(gross_amount, BROADCASTER_FEE_BPS)
                relayer_fee == bps_fee(gross_amount, RELAYER_FEE_BPS)
                protocol_fee == bps_fee(gross_amount, PROTOCOL_FEE_BPS)
                protocol == get(storage, ProtocolKey)
            IN  /\ transfers' = << Transfer(from, payment.broadcaster, broadcaster_fee),
                                   Transfer(from, payment.relayer, protocol_fee),
                                   Transfer(from, protocol, relayer_fee) >>
                /\ events' = << Event("reward_broadcaster", payment.broadcaster, broadcaster_fee),
                                Event("reward_relayer", payment.relayer, relayer_fee),
                                Event("reward_protocol", protocol, protocol_fee) >>
                /\ result' = Ok(Unit)
                /\ distributed' = distributed \cup {payment_id}
                /\ UNCHANGED <<storage, issued_ids, created>>

\* Variant of distribute_rewards that reads the protocol address before the
\* payment record.
DistributeRewardsProtocolFirst(payment_id, gross_amount, token_address, from, authorized, failed_transfer) ==
    /\ call' = [op |-> "distribute_rewards", payment_id |-> payment_id,
                gross_amount |-> gross_amount, token_address |-> token_address,
                from |-> from, authorized |-> authorized]
    /\ IF ~authorized
       THEN Reverted("NotAuthorized")
       ELSE IF ~has(storage, ProtocolKey)
       THEN Reverted("ProtocolNotConfigured")
       ELSE IF ~has(storage, PaymentKey(payment_id))
       THEN Reverted("PaymentNotFound")
       ELSE IF failed_transfer # 0
       THEN Reverted("TransferFailed")
       ELSE LET payment == get(storage, PaymentKey(payment_id))
                broadcaster_fee == bps_fee(gross_amount, BROADCASTER_FEE_BPS)
                relayer_fee == bps_fee(gross_amount, RELAYER_FEE_BPS)
                protocol_fee == bps_fee(gross_amount, PROTOCOL_FEE_BPS)
                protocol == get(storage, ProtocolKey)
            IN  /\ transfers' = << Transfer(from, payment.broadcaster, broadcaster_fee),
                                   Transfer(from, payment.relayer, relayer_fee),
                                   Transfer(from, protocol, protocol_fee) >>
                /\ events' = << Event("reward_broadcaster", payment.broadcaster, broadcaster_fee),
                                Event("reward_relayer", payment.relayer, relayer_fee),
                                Event("reward_protocol", protocol, protocol_fee) >>
                /\ result' = Ok(Unit)
                /\ distributed' = distributed \cup {payment_id}
                /\ UNCHANGED <<storage, issued_ids, created>>

\* Variant of distribute_rewards that publishes each event right after its
\* transfer and returns an error, without trapping, at the first transfer
\* the token contract rejects.
DistributeRewardsPartialPayout(payment_id, gross_amount, token_address, from, authorized, failed_transfer) ==
    /\ call' = [op |-> "distribute_rewards", payment_id |-> payment_id,
                gross_amount |-> gross_amount, token_address |-> token_address,
                from |-> from, authorized |-> authorized]
    /\ IF ~authorized
       THEN Reverted("NotAuthorized")
       ELSE IF ~has(storage, PaymentKey(payment_id))
       THEN Reverted("PaymentNotFound")
       ELSE IF ~has(storage, ProtocolKey)
       THEN Reverted("ProtocolNotConfigured")
       ELSE IF failed_transfer # 0
       THEN LET payment == get(storage, PaymentKey(payment_id))
                protocol == get(storage, ProtocolKey)
                to == <<payment.broadcaster, payment.relayer, protocol>>
                fee == <<bps_fee(gross_amount, BROADCASTER_FEE_BPS),
                         bps_fee(gross_amount, RELAYER_FEE_BPS),
                         bps_fee(gross_amount, PROTOCOL_FEE_BPS)>>
                topic == <<"reward_broadcaster", "reward_relayer", "reward_protocol">>
            IN  /\ transfers' = [i \in 1..(failed_transfer - 1) |-> Transfer(from, to[i], fee[i])]
                /\ events' = [i \in 1..(failed_transfer - 1) |-> Event(topic[i], to[i], fee[i])]
                /\ result' = Err("TransferFailed")
                /\ UNCHANGED <<storage, issued_ids, created, distributed>>
       ELSE LET payment == get(storage, PaymentKey(payment_id))
                broadcaster_fee == bps_fee(gross_amount, BROADCASTER_FEE_BPS)
                relayer_fee == bps_fee(gross_amount, RELAYER_FEE_BPS)
                protocol_fee == bps_fee(gross_amount, PROTOCOL_FEE_BPS)
                protocol == get(storage, ProtocolKey)
            IN  /\ transfers' = << Transfer(from, payment.broadcaster, broadcaster_fee),
                                   Transfer(from, payment.relayer, relayer_fee),
                                   Transfer(from, protocol, protocol_fee) >>
                /\ events' = << Event("reward_broadcaster", payment.broadcaster, broadcaster_fee),
                                Event("reward_relayer", payment.relayer, relayer_fee),
                                Event("reward_protocol", protocol, protocol_fee) >>
                /\ result' = Ok(Unit)
                /\ distributed' = distributed \cup {payment_id}
                /\ UNCHANGED <<storage, issued_ids, created>>

\* failed_transfer: 0 when the token contract accepts all three transfers,
\* otherwise the position (1..3) of the first transfer it rejects.
DistributeRewards(payment_id, gross_amount, token_address, from, authorized, failed_transfer) ==
    /\ call' = [op |-> "distribute_rewards", payment_id |-> payment_id,
                gross_amount |-> gross_amount, token_address |-> token_address,
                from |-> from, authorized |-> authorized]
    /\ IF ~authorized
       THEN Reverted("NotAuthorized")
       ELSE IF ~has(storage, PaymentKey(payment_id))
       THEN Reverted("PaymentNotFound")
       ELSE IF ~has(storage, ProtocolKey)
       THEN Reverted("ProtocolNotConfigured")
       ELSE IF failed_transfer # 0
       THEN Reverted("TransferFailed")
       ELSE LET payment == get(storage, PaymentKey(payment_id))
                broadcaster_fee == bps_fee(gross_amount, BROADCASTER_FEE_BPS)
                relayer_fee == bps_fee(gross_amount, RELAYER_FEE_BPS)
                protocol_fee == bps_fee(gross_amount, PROTOCOL_FEE_BPS)
                protocol == get(storage, ProtocolKey)
            IN  /\ transfers' = << Transfer(from, payment.broadcaster, broadcaster_fee),
                                   Transfer(from, payment.relayer, relayer_fee),
                                   Transfer(from, protocol, protocol_fee) >>
                /\ events' = << Event("reward_broadcaster", payment.broadcaster, broadcaster_fee),
                                Event("reward_relayer", payment.relayer, relayer_fee),
                                Event("reward_protocol", protocol, protocol_fee) >>
                /\ result' = Ok(Unit)
                /\ distributed' = distributed \cup {payment_id}
                /\ UNCHANGED <<storage, issued_ids, created>>

\* ------------------------------------------------------------- queries
GetPayment(payment_id) ==
    /\ call' = [op |-> "get_payment", payment_id |-> payment_id]
    /\ IF has(storage, PaymentKey(payment_id))
       THEN Returned(get(storage, PaymentKey(payment_id)))
       ELSE Reverted("PaymentNotFound")

\* Variant of get_payment_count that stores the default when the counter is
\* absent.
GetPaymentCountStoresDefault ==
    /\ call' = [op |-> "get_payment_count"]
    /\ result' = Ok(payment_count(storage))
    /\ storage' = set(storage, PaymentCountKey, payment_count(storage))
    /\ transfers' = <<>>
    /\ events' = <<>>
    /\ UNCHANGED <<issued_ids, created, distributed>>

GetPaymentCount ==
    /\ call' = [op |-> "get_payment_count"]
    /\ Returned(payment_count(storage))

CalculateFees(amount) ==
    /\ call' = [op |-> "calculate_fees", amount |-> amount]
    /\ Returned(calculate_fees(amount))

\* ------------------------------------------------------------------ Next
Next ==
    \/ \E protocol \in Protocols : Initialize(protocol)
    \/ \E sender \in Senders, recipient \in Recipients, broadcaster \in Broadcasters,
          relayer \in Relayers, amount \in CreateAmounts, authorized \in BOOLEAN :
            CreatePayment(sender, recipient, broadcaster, relayer, amount, authorized)
    \/ \E payment_id \in PaymentIds, gross_amount \in GrossAmounts, token_address \in Tokens,
          from \in Payers, authorized \in BOOLEAN, failed_transfer \in 0..3 :
            DistributeRewards(payment_id, gross_amount, token_address, from,
                              authorized, failed_transfer)
    \/ \E payment_id \in PaymentIds : GetPayment(payment_id)
    \/ GetPaymentCount
    \/ \E amount \in GrossAmounts : CalculateFees(amount)

Spec == Init /\ [][Next]_vars

\* The fee calculator on its own: the amount of the one pending invocation is
\* drawn from a dense range, and the invocation is then served.
InitFees ==
    /\ storage = EmptyStorage
    /\ \E amount \in GrossRange : call = [op |-> "pending", amount |-> amount]
    /\ result = Ok(Unit)
    /\ transfers = <<>>
    /\ events = <<>>
    /\ issued_ids = <<>>
    /\ created = <<>>
    /\ distributed = {}

ServeCalculateFees ==
    /\ call.op = "pending"
    /\ CalculateFees(call.amount)

NextFees == ServeCalculateFees

SpecFees == InitFees /\ [][NextFees]_vars

\* ==================================================================
\* calculate_fees at the full width of i128
\* ==================================================================
\* An i128 is kept as a sign and a magnitude; the magnitude is a sequence of
\* base-10000 limbs, least significant first, without leading zero limbs.
LimbBase == 10000

limb(m, i) == IF i <= Len(m) THEN m[i] ELSE 0

RECURSIVE mag_trim(_)
mag_trim(m) ==
    IF m = <<>> THEN <<>>
    ELSE IF m[Len(m)] = 0 THEN mag_trim(SubSeq(m, 1, Len(m) - 1))
    ELSE m

RECURSIVE mag_cmp_from(_, _, _)
mag_cmp_from(a, b, i) ==
    IF i = 0 THEN 0
    ELSE IF a[i] > b[i] THEN 1
    ELSE IF a[i] < b[i] THEN 0 - 1
    ELSE mag_cmp_from(a, b, i - 1)

\* -1, 0 or 1 as a < b, a = b or a > b
mag_cmp(a, b) ==
    IF Len(a) > Len(b) THEN 1
    ELSE IF Len(a) < Len(b) THEN 0 - 1
    ELSE mag_cmp_from(a, b, Len(a))

RECURSIVE mag_add_from(_, _, _, _)
mag_add_from(a, b, i, carry) ==
    IF i > Len(a) /\ i > Len(b)
    THEN (IF carry = 0 THEN <<>> ELSE <<carry>>)
    ELSE LET t == limb(a, i) + limb(b, i) + carry
         IN  <<t % LimbBase>> \o mag_add_from(a, b, i + 1, t \div LimbBase)

mag_add(a, b) == mag_add_from(a, b, 1, 0)

RECURSIVE mag_sub_from(_, _, _, _)
mag_sub_from(a, b, i, borrow) ==
    IF i > Len(a) THEN <<>>
    ELSE LET t == a[i] - limb(b, i) - borrow
         IN  IF t < 0
             THEN <<t + LimbBase>> \o mag_sub_from(a, b, i + 1, 1)
             ELSE <<t>> \o mag_sub_from(a, b, i + 1, 0)

\* a - b for a >= b
mag_sub(a, b) == mag_trim(mag_sub_from(a, b, 1, 0))

RECURSIVE mag_mul_from(_, _, _, _)
mag_mul_from(a, k, i, carry) ==
    IF i > Len(a)
    THEN (IF carry = 0 THEN <<>> ELSE <<carry>>)
    ELSE LET t == a[i] * k + carry
         IN  <<t % LimbBase>> \o mag_mul_from(a, k, i + 1, t \div LimbBase)

\* a * k for 0 <= k <= LimbBase
mag_mul_small(a, k) == mag_trim(mag_mul_from(a, k, 1, 0))

RECURSIVE mag_div_from(_, _, _, _)
mag_div_from(a, d, i, rem) ==
    IF i = 0 THEN <<>>
    ELSE LET cur == rem * LimbBase + a[i]
         IN  mag_div_from(a, d, i - 1, cur % d) \o <<cur \div d>>

\* the quotient of a by d, 0 < d <= LimbBase
mag_div_small(a, d) == mag_trim(mag_div_from(a, d, Len(a), 0))

RECURSIVE mag_mod(_, _)
mag_mod(a, m) == IF mag_cmp(a, m) < 0 THEN a ELSE mag_mod(mag_sub(a, m), m)

RECURSIVE mag_of_nat(_)
mag_of_nat(n) == IF n = 0 THEN <<>> ELSE <<n % LimbBase>> \o mag_of_nat(n \div LimbBase)

\* signed values
wide(neg, mag) == [neg |-> (neg /\ mag # <<>>), mag |-> mag]
wide_of_int(n) == IF n < 0 THEN wide(TRUE, mag_of_nat(0 - n)) ELSE wide(FALSE, mag_of_nat(n))
wide_neg(v) == wide(~v.neg, v.mag)

wide_add(a, b) ==
    IF a.neg = b.neg THEN wide(a.neg, mag_add(a.mag, b.mag))
    ELSE IF mag_cmp(a.mag, b.mag) >= 0 THEN wide(a.neg, mag_sub(a.mag, b.mag))
    ELSE wide(b.neg, mag_sub(b.mag, a.mag))

wide_sub(a, b) == wide_add(a, wide_neg(b))
wide_mul_small(a, k) == wide(a.neg, mag_mul_small(a.mag, k))

\* i128 `/` by a positive constant: the magnitude's quotient, sign kept
wide_div_small(a, d) == wide(a.neg, mag_div_small(a.mag, d))

\* 2^127 = 170141183460469231731687303715884105728
I128_HALF == <<5728, 8410, 7158, 7303, 3168, 2317, 469, 8346, 1411, 170>>
I128_MODULUS == mag_mul_small(I128_HALF, 2)    \* 2^128
I128_MAX == wide(FALSE, mag_sub(I128_HALF, <<1>>))
I128_MIN == wide(TRUE, I128_HALF)

\* v is representable as an i128
in_i128(v) ==
    IF v.neg THEN mag_cmp(v.mag, I128_HALF) <= 0 ELSE mag_cmp(v.mag, I128_HALF) < 0

\* two's complement wrap-around of v into the i128 range
wrap_i128(v) ==
    LET r == mag_mod(v.mag, I128_MODULUS)
    IN  IF ~v.neg
        THEN IF mag_cmp(r, I128_HALF) < 0
             THEN wide(FALSE, r)
             ELSE wide(TRUE, mag_sub(I128_MODULUS, r))
        ELSE IF mag_cmp(r, I128_HALF) <= 0
             THEN wide(TRUE, r)
             ELSE wide(FALSE, mag_sub(I128_MODULUS, r))

\* calculate_fees on an i128 amount.  `*` and `-` are Rust's plain operators:
\* on overflow they panic in a build with overflow checks and wrap around in a
\* build without them.  The result is "overflow" or the returned tuple.
calculate_fees_i128(amount, overflow_checks) ==
    LET bp == wide_mul_small(amount, BROADCASTER_FEE_BPS)
        rp == wide_mul_small(amount, RELAYER_FEE_BPS)
        pp == wide_mul_small(amount, PROTOCOL_FEE_BPS)
        broadcaster_fee == wide_div_small(wrap_i128(bp), BPS_DENOMINATOR)
        relayer_fee == wide_div_small(wrap_i128(rp), BPS_DENOMINATOR)
        protocol_fee == wide_div_small(wrap_i128(pp), BPS_DENOMINATOR)
        d1 == wide_sub(amount, broadcaster_fee)
        d2 == wide_sub(wrap_i128(d1), relayer_fee)
        d3 == wide_sub(wrap_i128(d2), protocol_fee)
        net_amount == wrap_i128(d3)
        overflowed == \E x \in {bp, rp, pp, d1, d2, d3} : ~in_i128(x)
    IN  IF overflow_checks /\ overflowed
        THEN "overflow"
        ELSE <<net_amount, broadcaster_fee, relayer_fee, protocol_fee>>

CalculateFeesI128(amount, overflow_checks) ==
    LET fees == calculate_fees_i128(amount, overflow_checks)
    IN  /\ call' = [op |-> "calculate_fees", amount |-> amount,
                    overflow_checks |-> overflow_checks]
        /\ IF fees = "overflow"
           THEN Reverted("ArithmeticOverflow")
           ELSE Returned(fees)

\* amounts around the points where a product leaves the i128 range
WideBases ==
    { wide_of_int(0),
      I128_MAX, I128_MIN,
      wide_div_small(I128_MAX, BROADCASTER_FEE_BPS),
      wide_div_small(I128_MIN, BROADCASTER_FEE_BPS),
      wide_div_small(I128_MAX, PROTOCOL_FEE_BPS),
      wide_div_small(I128_MAX, RELAYER_FEE_BPS),
      wide_div_small(I128_MIN, RELAYER_FEE_BPS) }

WideAmounts ==
    { v \in { wide_add(b, wide_of_int(d)) :
                  b \in WideBases, d \in (0 - WideSpread)..WideSpread } : in_i128(v) }

InitWide ==
    /\ storage = EmptyStorage
    /\ \E amount \in WideAmounts, overflow_checks \in BOOLEAN :
          call = [op |-> "pending", amount |-> amount, overflow_checks |-> overflow_checks]
    /\ result = Ok(Unit)
    /\ transfers = <<>>
    /\ events = <<>>
    /\ issued_ids = <<>>
    /\ created = <<>>
    /\ distributed = {}

ServeCalculateFeesI128 ==
    /\ call.op = "pending"
    /\ CalculateFeesI128(call.amount, call.overflow_checks)

NextWide == ServeCalculateFeesI128

SpecWide == InitWide /\ [][NextWide]_vars

\* ==================================================================
\* Properties
\* ==================================================================
stored(payment_id) == get(storage, PaymentKey(payment_id))
CreateSucceeded == call.op = "create_payment" /\ result.status = "ok"
DistributeSucceeded == call.op = "distribute_rewards" /\ result.status = "ok"

\* C1: with n successful create_payment calls so far, the counter read by
\* get_payment_count is n and the ids those calls returned are 0, 1, ..., n-1
\* in call order.
C1_IdsDenseAndCounted ==
    /\ \A i \in 1..Len(issued_ids) : issued_ids[i] = i - 1
    /\ payment_count(storage) = Len(issued_ids)
    /\ (call.op = "get_payment_count" => result.value = Len(issued_ids))

\* C2: a record stored under a payment id is still stored, unchanged, after
\* every later invocation.
C2_RecordsNeverRewritten ==
    [][\A id \in PaymentIds :
          has(storage, PaymentKey(id)) =>
              /\ has(storage', PaymentKey(id))
              /\ get(storage', PaymentKey(id)) = get(storage, PaymentKey(id))]_vars

\* C3: no invocation lowers payment_count, and a successful create_payment
\* raises it by exactly one.
C3_CountNeverDecreases ==
    [][/\ payment_count(storage') >= payment_count(storage)
       /\ (call'.op = "create_payment" /\ result'.status = "ok"
              => payment_count(storage') = payment_count(storage) + 1)]_vars

\* C4: initialize on a ledger that already holds a protocol address fails with
\* AlreadyInitialized and leaves the whole storage, the protocol address
\* included, as it was.
C4_SecondInitializeRejected ==
    [][(call'.op = "initialize" /\ has(storage, ProtocolKey)) =>
          /\ result' = Err("AlreadyInitialized")
          /\ storage' = storage
          /\ get(storage', ProtocolKey) = get(storage, ProtocolKey)]_vars

\* a rejected second initialize whose argument differs from the stored
\* protocol address, on a ledger that already holds a payment
C4_Witness ==
    /\ call.op = "initialize"
    /\ result.status = "AlreadyInitialized"
    /\ get(storage, ProtocolKey) # call.protocol
    /\ payment_count(storage) > 0

\* C5: the net amount create_payment stores for a gross amount g >= 0 is the
\* net component of calculate_fees(g), so that it adds up to g with the three
\* fee components.
C5_StoredNetMatchesCalculator ==
    (CreateSucceeded /\ call.amount >= 0) =>
        LET fees == calculate_fees(call.amount)
            net == stored(result.value).amount
        IN  /\ net = fees[1]
            /\ net + fees[2] + fees[3] + fees[4] = call.amount

\* C6: for a gross amount g >= 0 the four components returned by
\* calculate_fees add up to g.
C6_FeesConserveGross ==
    (call.op = "calculate_fees" /\ result.status = "ok" /\ call.amount >= 0) =>
        result.value[1] + result.value[2] + result.value[3] + result.value[4]
            = call.amount

\* calculate_fees(999): every component is truncated and the three fees sum
\* to 2 less than 1% of the amount
C6_Witness ==
    /\ call.op = "calculate_fees"
    /\ call.amount = 999
    /\ result = Ok(<<992, 4, 0, 3>>)

\* C7: distribute_rewards on a payment id for which a distribution has
\* already succeeded does not succeed again and pays nobody.
C7_DistributeAtMostOnce ==
    [][(call'.op = "distribute_rewards" /\ call'.payment_id \in distributed) =>
          /\ result'.status # "ok"
          /\ transfers' = <<>>]_vars

\* C8: create_payment stores the record with claimed = false and after a
\* successful distribute_rewards the record has claimed = true.
C8_ClaimedFlippedByDistribution ==
    /\ (CreateSucceeded => stored(result.value).claimed = FALSE)
    /\ (DistributeSucceeded => stored(call.payment_id).claimed = TRUE)

\* C9: a successful distribute_rewards issues exactly the transfers
\* payer -> broadcaster of gross*50/10000, payer -> relayer of gross*10/10000
\* and payer -> protocol of gross*40/10000, in that order, and publishes
\* reward_broadcaster, reward_relayer and reward_protocol in that order, each
\* with the recipient and the amount transferred to it.
C9_ThreeTransfersThreeEvents ==
    DistributeSucceeded =>
        LET payment == stored(call.payment_id)
            payer == call.from
            gross == call.gross_amount
            to == <<payment.broadcaster, payment.relayer, get(storage, ProtocolKey)>>
            share == <<TruncDiv(gross * 50, 10000), TruncDiv(gross * 10, 10000),
                       TruncDiv(gross * 40, 10000)>>
            topic == <<"reward_broadcaster", "reward_relayer", "reward_protocol">>
        IN  /\ Len(transfers) = 3
            /\ Len(events) = 3
            /\ \A i \in 1..3 :
                  /\ transfers[i] = [from |-> payer, to |-> to[i], amount |-> share[i]]
                  /\ events[i] = [topic |-> topic[i], to |-> to[i], amount |-> share[i]]

\* gross 10_000 distributed for payment 1, whose broadcaster is not the one of
\* payment 0: transfers of 50, 10 and 40
C9_Witness ==
    /\ DistributeSucceeded
    /\ call.gross_amount = 10000
    /\ call.payment_id = 1
    /\ stored(0).broadcaster # stored(1).broadcaster
    /\ transfers[1].amount = 50 /\ transfers[1].to = stored(1).broadcaster
    /\ transfers[2].amount = 10 /\ transfers[2].to = stored(1).relayer
    /\ transfers[3].amount = 40 /\ transfers[3].to = get(storage, ProtocolKey)
    /\ Len(events) = 3

\* C10 (as stated): distribute_rewards, authorized by the payer, on a ledger
\* that was never initialized fails with ProtocolNotConfigured for every
\* payment id, with no transfer and no event.
C10_AlwaysProtocolNotConfigured ==
    (call.op = "distribute_rewards" /\ call.authorized /\ ~has(storage, ProtocolKey)) =>
        /\ result = Err("ProtocolNotConfigured")
        /\ transfers = <<>>
        /\ events = <<>>

\* C10 (amended): distribute_rewards, authorized by the payer, on a ledger
\* that was never initialized fails with ProtocolNotConfigured when a record
\* exists under the payment id and with PaymentNotFound when none does, in
\* both cases with no transfer and no event.
C10_NotConfiguredWhenRecordExists ==
    (call.op = "distribute_rewards" /\ call.authorized /\ ~has(storage, ProtocolKey)) =>
        /\ result = IF has(storage, PaymentKey(call.payment_id))
                    THEN Err("ProtocolNotConfigured")
                    ELSE Err("PaymentNotFound")
        /\ transfers = <<>>
        /\ events = <<>>

\* a payment created before any initialize, then an authorized distribution
\* for it rejected with ProtocolNotConfigured
C10_Witness ==
    /\ call.op = "distribute_rewards"
    /\ call.authorized
    /\ ~has(storage, ProtocolKey)
    /\ has(storage, PaymentKey(call.payment_id))
    /\ result = Err("ProtocolNotConfigured")

\* C11: get_payment and an authorized distribute_rewards on an id under which
\* no create_payment ever stored a record fail with PaymentNotFound, with no
\* transfer, no event and no storage change; get_payment on an id returned by
\* a create_payment call returns the record that call stored.
C11_UnknownIdRejectedKnownIdReturned ==
    [][/\ ( /\ \/ call'.op = "get_payment"
               \/ (call'.op = "distribute_rewards" /\ call'.authorized)
            /\ \A i \in 1..Len(issued_ids) : issued_ids[i] # call'.payment_id )
          => /\ result' = Err("PaymentNotFound")
             /\ transfers' = <<>>
             /\ events' = <<>>
             /\ storage' = storage
       /\ call'.op = "get_payment"
          => \A i \in 1..Len(issued_ids) :
                issued_ids[i] = call'.payment_id => result' = Ok(created[i])]_vars

\* C12: the protocol address is absent at first, appears only through a
\* successful initialize and then equals that call's argument, is never
\* changed or removed afterwards, and every successful distribute_rewards
\* pays the protocol share to it.
C12_ProtocolSetOnce ==
    /\ ~has(storage, ProtocolKey)
    /\ [][/\ has(storage, ProtocolKey)
             => /\ has(storage', ProtocolKey)
                /\ get(storage', ProtocolKey) = get(storage, ProtocolKey)
          /\ (~has(storage, ProtocolKey) /\ has(storage', ProtocolKey))
             => /\ call'.op = "initialize"
                /\ result'.status = "ok"
                /\ get(storage', ProtocolKey) = call'.protocol
          /\ (call'.op = "distribute_rewards" /\ result'.status = "ok")
             => /\ has(storage, ProtocolKey)
                /\ transfers'[3].to = get(storage, ProtocolKey)
                /\ events'[3].to = get(storage, ProtocolKey)]_vars

\* a distribution that paid the protocol share to P2, the address given to
\* the one successful initialize
C12_Witness ==
    /\ DistributeSucceeded
    /\ has(storage, ProtocolKey)
    /\ get(storage, ProtocolKey) = "P2"
    /\ transfers[3] = [from |-> call.from, to |-> "P2", amount |-> 40]

\* q is x / d rounded toward zero (d > 0)
IsQuotientTowardZero(x, d, q) ==
    IF x >= 0
    THEN q >= 0 /\ q * d <= x /\ x < (q + 1) * d
    ELSE q <= 0 /\ q * d >= x /\ x > (q - 1) * d

\* C13: calculate_fees returns the broadcaster, relayer and protocol fees as
\* amount * 50 / 10000, amount * 10 / 10000 and amount * 40 / 10000, each
\* rounded toward zero, and the net as the amount minus the three fees;
\* calculate_fees(10000) = (9900, 50, 10, 40) and calculate_fees(1) = (1, 0, 0, 0).
C13_IndependentTruncatedFees ==
    (call.op = "calculate_fees") =>
        /\ result.status = "ok"
        /\ Len(result.value) = 4
        /\ IsQuotientTowardZero(call.amount * 50, 10000, result.value[2])
        /\ IsQuotientTowardZero(call.amount * 10, 10000, result.value[3])
        /\ IsQuotientTowardZero(call.amount * 40, 10000, result.value[4])
        /\ result.value[1] = call.amount - result.value[2] - result.value[3] - result.value[4]
        /\ (call.amount = 10000 => result.value = <<9900, 50, 10, 40>>)
        /\ (call.amount = 1 => result.value = <<1, 0, 0, 0>>)

\* calculate_fees(10000) served with (9900, 50, 10, 40)
C13_Witness ==
    /\ call.op = "calculate_fees"
    /\ call.amount = 10000
    /\ result = Ok(<<9900, 50, 10, 40>>)

\* C15: an invocation that fails leaves the storage (protocol, payment_count,
\* payments) as it was, and distribute_rewards publishes events only when all
\* three of its transfers were made.
C15_FailureLeavesStateUnchanged ==
    [][/\ result'.status # "ok"
          => /\ storage' = storage
             /\ transfers' = <<>>
             /\ events' = <<>>
       /\ (call'.op = "distribute_rewards" /\ events' # <<>>)
          => /\ result'.status = "ok"
             /\ Len(transfers') = 3]_vars

\* a distribution for an existing payment on an initialized ledger whose
\* transfer was rejected: nothing is left of it
C15_Witness ==
    /\ call.op = "distribute_rewards"
    /\ result = Err("TransferFailed")
    /\ has(storage, ProtocolKey)
    /\ has(storage, PaymentKey(call.payment_id))
    /\ transfers = <<>>
    /\ events = <<>>

\* C16: create_payment without the sender's authorization and
\* distribute_rewards without the payer's authorization fail with
\* NotAuthorized whatever the storage holds, allocate no id, store nothing and
\* issue no transfer and no event.
C16_UnauthorizedRejectedFirst ==
    [][( /\ call'.op \in {"create_payment", "distribute_rewards"}
         /\ ~call'.authorized )
          => /\ result' = Err("NotAuthorized")
             /\ storage' = storage
             /\ payment_count(storage') = payment_count(storage)
             /\ issued_ids' = issued_ids
             /\ transfers' = <<>>
             /\ events' = <<>>]_vars

\* an unauthorized create_payment rejected on a ledger that already holds
\* exactly one payment
C16_Witness ==
    /\ call.op = "create_payment"
    /\ ~call.authorized
    /\ result = Err("NotAuthorized")
    /\ payment_count(storage) = 1
    /\ has(storage, PaymentKey(0))
    /\ ~has(storage, PaymentKey(1))
    /\ Len(issued_ids) = 1

\* C17: for a gross amount g >= 0 the three separately truncated fees sum to
\* at most the once-truncated 1% fee g*100/10000 and fall short of it by at
\* most 2, so what create_payment withholds (g minus the net it stores)
\* exceeds what distribute_rewards pays out for the same g by 0, 1 or 2.
C17_SplitFeesWithinTwoOfTotal ==
    (call.op = "calculate_fees" /\ result.status = "ok" /\ call.amount >= 0) =>
        LET g == call.amount
            paid == result.value[2] + result.value[3] + result.value[4]
            total == (g * 100) \div 10000
            withheld == g - create_net_amount(g)
        IN  /\ paid <= total
            /\ total - paid <= 2
            /\ withheld = total
            /\ withheld - paid \in {0, 1, 2}

\* g = 1999: fees 9 + 1 + 7 = 17 against a withheld 19
C17_Witness ==
    /\ call.op = "calculate_fees"
    /\ call.amount = 1999
    /\ result.value[2] + result.value[3] + result.value[4] = 17
    /\ call.amount - create_net_amount(call.amount) = 19

\* C18: the payment ids that have a stored record are exactly
\* 0 .. payment_count - 1.
C18_StoredIdsAreDense ==
    \A id \in PaymentIds :
        has(storage, PaymentKey(id)) <=> id < payment_count(storage)

\* C19: get_payment, get_payment_count and calculate_fees leave the storage as
\* it was, succeed or fail, and issue no transfer and no event;
\* get_payment_count on a ledger without a counter returns 0 and does not
\* create the counter.
C19_QueriesAreReadOnly ==
    [][/\ call'.op \in {"get_payment", "get_payment_count", "calculate_fees"}
          => /\ storage' = storage
             /\ transfers' = <<>>
             /\ events' = <<>>
       /\ (call'.op = "get_payment_count" /\ ~has(storage, PaymentCountKey))
          => /\ result' = Ok(0)
             /\ ~has(storage', PaymentCountKey)]_vars

\* get_payment_count answered with 0 on a ledger that was never initialized or used
C19_Witness ==
    /\ call.op = "get_payment_count"
    /\ result = Ok(0)
    /\ storage = EmptyStorage

\* C14: when a product amount * rate_bps of calculate_fees is outside the i128
\* range, the invocation fails with ArithmeticOverflow and returns no value.
C14_OverflowFails ==
    ( /\ call.op = "calculate_fees"
      /\ \E rate_bps \in {50, 10, 40} : ~in_i128(wide_mul_small(call.amount, rate_bps)) )
        => result = Err("ArithmeticOverflow")

====
